---- MODULE Spec2Model ----
(***************************************************************************)
(* Model of the saved-places store of coconuts (src/src/coconuts):         *)
(* the SavedPlace record, the saved_places table of GoogleMapsDatabase     *)
(* and the operations on it.                                               *)
(*                                                                         *)
(* Values.  A Python Optional / an SQL nullable column is a set with at    *)
(* most one element: None (SQL NULL) is {}, a value x is {x}.  A list is   *)
(* a sequence, a mapping a set of <<key, value>> pairs.  A TEXT column     *)
(* written by json.dumps holds [json |-> v], v being the encoded value.    *)
(* Timestamps are the readings of a clock that every writing call reads    *)
(* once and that has moved on by the next call.  Coordinates are whole     *)
(* degrees on the equator, where the great-circle expression of the radius *)
(* query reduces to the arc of the longitude difference.                   *)
(***************************************************************************)
EXTENDS Integers, Sequences, FiniteSets, TLC

VARIABLES table, seq, now, op, arg, ret, exc

vars == <<table, seq, now, op, arg, ret, exc>>

\* ------------------------------------------------------------- bounds
MaxId == 3
MaxTime == 3

\* ------------------------------------------------------------- values
None == {}
Some(x) == {x}
Val(v) == CHOOSE x \in v : TRUE

EmptyMap == {}
Hours == {<<"monday", "11:00-04:00">>}

\* Python truthiness of an Optional str / list / mapping: None and the empty
\* container are falsy.
TruthyMap(v) == v # None /\ Val(v) # EmptyMap

Fields ==
    {"id", "name", "address", "latitude", "longitude", "place_id", "types",
     "rating", "user_ratings_total", "price_level", "website", "phone_number",
     "opening_hours", "photos", "notes", "tags", "created_at", "updated_at"}

\* ------------------------------------------------------------- record model
\* SavedPlace(**kw): the dataclass defaults, then __post_init__ at time t.
Default(f) ==
    CASE f \in {"name", "address"} -> Some("")
      [] f \in {"latitude", "longitude"} -> Some(0)
      [] OTHER -> None

SavedPlace(kw, t) ==
    LET raw == [f \in Fields |-> IF f \in DOMAIN kw THEN kw[f] ELSE Default(f)]
    IN  [raw EXCEPT
            !.types = IF raw.types = None THEN Some(<<>>) ELSE raw.types,
            !.photos = IF raw.photos = None THEN Some(<<>>) ELSE raw.photos,
            !.tags = IF raw.tags = None THEN Some(<<>>) ELSE raw.tags,
            !.created_at = IF raw.created_at = None THEN Some(t) ELSE raw.created_at,
            !.updated_at = IF raw.updated_at = None THEN Some(t) ELSE raw.updated_at]

\* ------------------------------------------------------------- codec
json_dumps(v) == [json |-> v]
json_loads(text) == text.json

\* The column values save_place and update_place bind for a place.
Columns(place) ==
    [name |-> place.name,
     address |-> place.address,
     latitude |-> place.latitude,
     longitude |-> place.longitude,
     place_id |-> place.place_id,
     types |-> Some(json_dumps(place.types)),
     rating |-> place.rating,
     user_ratings_total |-> place.user_ratings_total,
     price_level |-> place.price_level,
     website |-> place.website,
     phone_number |-> place.phone_number,
     opening_hours |-> IF TruthyMap(place.opening_hours)
                       THEN Some(json_dumps(place.opening_hours)) ELSE None,
     photos |-> Some(json_dumps(place.photos)),
     notes |-> place.notes,
     tags |-> Some(json_dumps(place.tags)),
     created_at |-> place.created_at,
     updated_at |-> place.updated_at]

\* A list column read back: NULL (falsy) gives [], a text is decoded, and a
\* decoded null is replaced by [] in __post_init__.
LoadList(col) ==
    IF col = None THEN Some(<<>>)
    ELSE IF json_loads(Val(col)) = None THEN Some(<<>>) ELSE json_loads(Val(col))

_row_to_place(row) ==
    [id |-> Some(row.id),
     name |-> row.name,
     address |-> row.address,
     latitude |-> row.latitude,
     longitude |-> row.longitude,
     place_id |-> row.place_id,
     types |-> LoadList(row.types),
     rating |-> row.rating,
     user_ratings_total |-> row.user_ratings_total,
     price_level |-> row.price_level,
     website |-> row.website,
     phone_number |-> row.phone_number,
     opening_hours |-> IF row.opening_hours = None THEN None
                       ELSE json_loads(Val(row.opening_hours)),
     photos |-> LoadList(row.photos),
     notes |-> row.notes,
     tags |-> LoadList(row.tags),
     created_at |-> row.created_at,
     updated_at |-> row.updated_at]

\* ------------------------------------------------------------- schema
NotNullColumns == {"name", "address", "latitude", "longitude", "created_at", "updated_at"}

NotNullViolated(cols) == \E c \in NotNullColumns : cols[c] = None

UniqueConflictsNone(t, pid, self) == {}

\* place_id TEXT UNIQUE: the rows of t other than `self` that hold the
\* non-NULL place_id pid.
UniqueConflicts(t, pid, self) ==
    {r \in t : pid # None /\ r.place_id = pid /\ r.id # self}

MakeRow(id, cols) == [f \in Fields |-> IF f = "id" THEN id ELSE cols[f]]

\* ------------------------------------------------------------- queries
get_place(t, id) == {_row_to_place(r) : r \in {x \in t : x.id = id}}

get_place_by_google_id(t, pid) ==
    {_row_to_place(r) : r \in {x \in t : pid # None /\ x.place_id = pid}}

\* ------------------------------------------------------------- inputs
\* The keyword arguments callers construct places from.  created_at is
\* either given (the epoch) or left to default to the time of construction.
Keywords ==
    {[name |-> Some("a"), address |-> Some("addr"), latitude |-> Some(0),
      longitude |-> Some(0)],
     [name |-> Some("b"), address |-> Some("addr"), latitude |-> Some(0),
      longitude |-> Some(1), place_id |-> Some("g1"), rating |-> Some(0),
      opening_hours |-> Some(EmptyMap), tags |-> Some(<<"food">>)],
     [name |-> Some("c"), address |-> Some("addr"), latitude |-> Some(0),
      longitude |-> Some(0), place_id |-> Some("g1"), rating |-> Some(4),
      opening_hours |-> Some(Hours), tags |-> Some(<<"food", "art">>),
      created_at |-> Some(0)],
     [name |-> Some("d"), address |-> Some("addr"), latitude |-> Some(0),
      longitude |-> Some(2), place_id |-> Some("g2"), rating |-> Some(4),
      opening_hours |-> Some(Hours), created_at |-> Some(0)]}

\* The keyword arguments of update_place calls; "bogus" is no attribute.
Updates ==
    {[notes |-> Some("n")],
     [rating |-> Some(0), bogus |-> Some(1)],
     [opening_hours |-> Some(EmptyMap)],
     [place_id |-> Some("g1")],
     [created_at |-> Some(MaxTime + 1), id |-> Some(MaxId + 1)],
     [types |-> None],
     [name |-> None],
     [bogus |-> Some(1)]}

NoUpdates == <<>>

\* The elements of imported JSON arrays: objects (some with a key that is no
\* attribute, some with a null name) and a value that is no object.
ImportItems ==
    {[kind |-> "object", kw |-> [name |-> Some("b"), address |-> Some("addr"),
                                 latitude |-> Some(0), longitude |-> Some(1),
                                 place_id |-> Some("g1")]],
     [kind |-> "object", kw |-> [name |-> Some("e"), bogus |-> Some(1)]],
     [kind |-> "object", kw |-> [name |-> None, address |-> Some("addr")]],
     [kind |-> "string"]}

\* The decoded json_data of import calls: arrays of up to two elements, a
\* value that is no array, and text that is no JSON.
Payloads ==
    {[kind |-> "array", items |-> items] :
        items \in {<<>>} \cup {<<x>> : x \in ImportItems}
                        \cup {<<x, y>> : x \in ImportItems, y \in ImportItems}}
    \cup {[kind |-> "object"], [kind |-> "invalid"]}

\* The ids calls are made with: those of the stored rows and one that no row
\* has.
Ids == {r.id : r \in table} \cup {seq + 1}

\* ------------------------------------------------------------- state
Init ==
    /\ table = {}
    /\ seq = 0
    /\ now = 0
    /\ op = "init"
    /\ arg = None
    /\ ret = None
    /\ exc = ""

\* save_place(place): the place object is stamped, then INSERT OR REPLACE
\* without an id column: rows in conflict on place_id are deleted and the
\* new row takes the next AUTOINCREMENT id.
SaveEffect(t, s, place, time) ==
    LET stamped == [place EXCEPT !.updated_at = Some(time)]
        cols == Columns(stamped)
    IN  IF NotNullViolated(cols)
        THEN [table |-> t, seq |-> s, place |-> stamped, id |-> None,
              exc |-> "IntegrityError"]
        ELSE [table |-> (t \ UniqueConflicts(t, cols.place_id, 0))
                            \cup {MakeRow(s + 1, cols)},
              seq |-> s + 1, place |-> stamped, id |-> Some(s + 1), exc |-> ""]

save_place(kw) ==
    /\ seq < MaxId
    /\ now < MaxTime
    /\ LET e == SaveEffect(table, seq, SavedPlace(kw, now), now)
       IN  /\ table' = e.table
           /\ seq' = e.seq
           /\ op' = "save_place"
           /\ arg' = e.place
           /\ ret' = e.id
           /\ exc' = e.exc
    /\ now' = now + 1

PatchedFromDefaults(place, upd, time) ==
    [[f \in Fields |-> IF f \in DOMAIN upd THEN upd[f] ELSE SavedPlace(<<>>, time)[f]]
        EXCEPT !.updated_at = Some(time)]

\* The object update_place writes back: the loaded place with the updates
\* that name an attribute set on it, stamped.
Patched(place, upd, time) ==
    [[f \in Fields |-> IF f \in DOMAIN upd THEN upd[f] ELSE place[f]]
        EXCEPT !.updated_at = Some(time)]

\* UPDATE ... WHERE id = ?: every column but id and created_at is rewritten.
Rewritten(row, cols) ==
    [f \in Fields |-> IF f \in {"id", "created_at"} THEN row[f] ELSE cols[f]]

UpdateRejected(t, id, cols) ==
    \/ NotNullViolated(cols)
    \/ UniqueConflicts(t, cols.place_id, id) # {}

\* The early returns of update_place: no updates given, or no such row.
UpdateRefused(t, id, upd) == DOMAIN upd = {} \/ get_place(t, id) = None

\* update_place(self, place_id, **updates): a keyword named like a parameter
\* cannot be bound and the call raises TypeError before its body runs.
KeywordClash(upd) == "place_id" \in DOMAIN upd

update_place(id, upd) ==
    /\ op' = "update_place"
    /\ arg' = [place_id |-> id, updates |-> upd]
    /\ UNCHANGED seq
    /\ IF KeywordClash(upd)
       THEN /\ ret' = FALSE
            /\ exc' = "TypeError"
            /\ UNCHANGED <<table, now>>
       ELSE IF UpdateRefused(table, id, upd)
       THEN /\ ret' = FALSE
            /\ exc' = ""
            /\ UNCHANGED <<table, now>>
       ELSE /\ now < MaxTime
            /\ now' = now + 1
            /\ LET row == CHOOSE r \in table : r.id = id
                   cols == Columns(Patched(Val(get_place(table, id)), upd, now))
               IN  IF UpdateRejected(table, id, cols)
                   THEN /\ ret' = FALSE
                        /\ exc' = "IntegrityError"
                        /\ UNCHANGED table
                   ELSE /\ ret' = TRUE
                        /\ exc' = ""
                        /\ table' = (table \ {row}) \cup {Rewritten(row, cols)}

\* DELETE ... WHERE id = ?: the rows the statement matches, and the result
\* delete_place makes of the cursor's rowcount.
Deleted(t, id) == {r \in t : r.id = id}

DeleteSucceededAlways(rowcount) == rowcount >= 0

DeleteSucceeded(rowcount) == rowcount > 0

delete_place(id) ==
    /\ op' = "delete_place"
    /\ arg' = Some(id)
    /\ table' = table \ Deleted(table, id)
    /\ ret' = DeleteSucceeded(Cardinality(Deleted(table, id)))
    /\ exc' = ""
    /\ UNCHANGED <<seq, now>>

\* The loop of import_places_from_json over the rest of the array: st holds
\* the table, the id sequence, the count, the collected errors and the
\* exception that left the loop, if any.
RECURSIVE ImportLoop(_, _, _)
ImportLoop(items, st, time) ==
    IF items = <<>> \/ st.exc # "" THEN st
    ELSE LET item == Head(items)
         IN  IF item.kind # "object"
             THEN \* SavedPlace(**place_data) raises TypeError, and the handler's
                  \* place_data.get raises AttributeError, which nothing catches
                  [st EXCEPT !.exc = "AttributeError"]
             ELSE IF DOMAIN item.kw \subseteq Fields
             THEN LET e == SaveEffect(st.table, st.seq, SavedPlace(item.kw, time), time)
                  IN  IF e.exc = ""
                      THEN ImportLoop(Tail(items),
                               [st EXCEPT !.table = e.table, !.seq = e.seq,
                                          !.imported_count = @ + 1], time)
                      ELSE ImportLoop(Tail(items),
                               [st EXCEPT !.errors = Append(@, e.exc)], time)
             ELSE ImportLoop(Tail(items),
                      [st EXCEPT !.errors = Append(@, "TypeError")], time)

import_places_from_json(payload) ==
    /\ op' = "import_places_from_json"
    /\ arg' = payload
    /\ IF payload.kind # "array"
       THEN /\ ret' = [success |-> FALSE, imported_count |-> 0, errors |-> <<>>]
            /\ exc' = ""
            /\ UNCHANGED <<table, seq, now>>
       ELSE /\ seq + Len(payload.items) <= MaxId
            /\ now < MaxTime
            /\ LET st == ImportLoop(payload.items,
                              [table |-> table, seq |-> seq, imported_count |-> 0,
                               errors |-> <<>>, exc |-> ""], now)
               IN  /\ table' = st.table
                   /\ seq' = st.seq
                   /\ ret' = [success |-> st.exc = "",
                              imported_count |-> st.imported_count,
                              errors |-> st.errors]
                   /\ exc' = st.exc
            /\ now' = now + 1

GetPlace(id) ==
    /\ op' = "get_place"
    /\ arg' = Some(id)
    /\ ret' = get_place(table, id)
    /\ exc' = ""
    /\ UNCHANGED <<table, seq, now>>

GetPlaceByGoogleId(pid) ==
    /\ op' = "get_place_by_google_id"
    /\ arg' = pid
    /\ ret' = get_place_by_google_id(table, pid)
    /\ exc' = ""
    /\ UNCHANGED <<table, seq, now>>

\* ORDER BY leaves the order of rows with equal keys open: every listing of
\* the rows that is sorted by the key is a possible result.
Listings(rs) ==
    {f \in [1..Cardinality(rs) -> rs] : \A i, j \in DOMAIN f : i # j => f[i] # f[j]}

CreatedAt(r) == Val(r.created_at)

\* ORDER BY created_at DESC
NewestFirst(rs) ==
    {f \in Listings(rs) :
        \A i, j \in DOMAIN f : i < j => CreatedAt(f[i]) >= CreatedAt(f[j])}

\* LIMIT l OFFSET o of SQLite: a negative offset counts as 0, a negative
\* limit as no limit.
LimitOffset(rows, l, o) ==
    LET from == IF o < 0 THEN 0 ELSE o
        upto == IF l < 0 \/ from + l > Len(rows) THEN Len(rows) ELSE from + l
    IN  SubSeq(rows, from + 1, upto)

\* `if limit:` of get_all_places: None and 0 are falsy.
Truthy(limit) == limit # None /\ Val(limit) # 0

Places(rows) == [i \in DOMAIN rows |-> _row_to_place(rows[i])]

get_all_places(limit, offset) ==
    /\ op' = "get_all_places"
    /\ arg' = [limit |-> limit, offset |-> offset]
    /\ \E sorted \in NewestFirst(table) :
          ret' = Places(IF Truthy(limit)
                        THEN LimitOffset(sorted, Val(limit), offset)
                        ELSE sorted)
    /\ exc' = ""
    /\ UNCHANGED <<table, seq, now>>

\* 6371 * acos(cos(lat1) cos(lat2) cos(lon2 - lon1) + sin(lat1) sin(lat2)) in
\* whole km for two points of the equator: the arc of the longitude
\* difference folded into 0..180 degrees, with pi taken as 355/113.
EarthRadiusKm == 6371

Distance(latitude, longitude, rlat, rlon) ==
    LET d == IF rlon >= longitude THEN rlon - longitude ELSE longitude - rlon
        deg == IF d > 180 THEN 360 - d ELSE d
    IN  (EarthRadiusKm * 355 * deg) \div (180 * 113)

\* WHERE distance <= ? ORDER BY distance
NearestFirst(rs, latitude, longitude, radius_km) ==
    LET dist(r) == Distance(latitude, longitude, Val(r.latitude), Val(r.longitude))
    IN  {f \in Listings({r \in rs : dist(r) <= radius_km}) :
            \A i, j \in DOMAIN f : i < j => dist(f[i]) <= dist(f[j])}

get_places_by_location(latitude, longitude, radius_km) ==
    /\ op' = "get_places_by_location"
    /\ arg' = [latitude |-> latitude, longitude |-> longitude,
               radius_km |-> radius_km]
    /\ \E sorted \in NearestFirst(table, latitude, longitude, radius_km) :
          ret' = Places(sorted)
    /\ exc' = ""
    /\ UNCHANGED <<table, seq, now>>

\* ------------------------------------------------------------- statistics
\* tag_counts as get_statistics builds it: a dict keeps its keys in the order
\* of their first insertion, so it is a sequence of <<tag, count>> pairs.
RECURSIVE CountTags(_, _)
CountTags(all_tags, tag_counts) ==
    IF all_tags = <<>> THEN tag_counts
    ELSE LET tag == Head(all_tags)
             known == {i \in DOMAIN tag_counts : tag_counts[i][1] = tag}
         IN  CountTags(Tail(all_tags),
                 IF known = {}
                 THEN Append(tag_counts, <<tag, 1>>)
                 ELSE [i \in DOMAIN tag_counts |->
                          IF i \in known
                          THEN <<tag, tag_counts[i][2] + 1>> ELSE tag_counts[i]])

InsertBeforeTies(sorted, item) ==
    LET before == {i \in DOMAIN sorted : sorted[i][2] > item[2]}
        k == Cardinality(before)
    IN  SubSeq(sorted, 1, k) \o <<item>> \o SubSeq(sorted, k + 1, Len(sorted))

\* sorted(items, key=count, reverse=True): a stable sort, so every item goes
\* behind the items sorted so far whose count is at least its own.
InsertByCount(sorted, item) ==
    LET before == {i \in DOMAIN sorted : sorted[i][2] >= item[2]}
        k == Cardinality(before)
    IN  SubSeq(sorted, 1, k) \o <<item>> \o SubSeq(sorted, k + 1, Len(sorted))

RECURSIVE SortedByCount(_)
SortedByCount(items) ==
    IF items = <<>> THEN <<>>
    ELSE InsertByCount(SortedByCount(SubSeq(items, 1, Len(items) - 1)),
                       items[Len(items)])

TopTags == 10

\* sorted(...)[:10]
MostCommonTags(all_tags) ==
    LET sorted == SortedByCount(CountTags(all_tags, <<>>))
    IN  SubSeq(sorted, 1, IF Len(sorted) < TopTags THEN Len(sorted) ELSE TopTags)

\* The decoded tags of the rows in the order the SELECT delivers them; None
\* marks a row whose tags text decodes to null.
Decoded(rows) == [i \in DOMAIN rows |-> json_loads(Val(rows[i].tags))]

RECURSIVE Extend(_)
Extend(lists) ==
    IF lists = <<>> THEN <<>> ELSE Val(Head(lists)) \o Extend(Tail(lists))

RECURSIVE SumRatings(_)
SumRatings(rs) ==
    IF rs = {} THEN 0
    ELSE LET r == CHOOSE x \in rs : TRUE
         IN  Val(r.rating) + SumRatings(rs \ {r})

Rated(t) == {r \in t : r.rating # None}

\* SELECT AVG(rating) ... WHERE rating IS NOT NULL, as the pair <<sum, count>>
\* of an exact quotient; NULL when no row is rated.
AvgRating(t) ==
    IF Rated(t) = {} THEN None ELSE Some(<<SumRatings(Rated(t)), Cardinality(Rated(t))>>)

\* round(avg, 2) in hundredths.  The quotients of the ratings modelled never
\* lie halfway between two hundredths.
Round2(avg) == (200 * avg[1] + avg[2]) \div (2 * avg[2])

\* round(avg_rating, 2) if avg_rating else None: None and 0.0 are falsy.
Average(avg) ==
    IF avg # None /\ Val(avg)[1] # 0 THEN Some(Round2(Val(avg))) ELSE None

get_statistics ==
    /\ op' = "get_statistics"
    /\ \E rows \in Listings({r \in table : r.tags # None}) :
          /\ arg' = rows
          /\ IF \E i \in DOMAIN rows : Decoded(rows)[i] = None
             THEN \* all_tags.extend(None)
                  /\ ret' = None
                  /\ exc' = "TypeError"
             ELSE /\ ret' = Some([total_places |-> Cardinality(table),
                                  average_rating |-> Average(AvgRating(table)),
                                  most_common_tags |->
                                      MostCommonTags(Extend(Decoded(rows)))])
                  /\ exc' = ""
    /\ UNCHANGED <<table, seq, now>>

ManyTags == <<"t1", "t2", "t3", "t4", "t5", "t6", "t7", "t8", "t9", "t10", "t11", "t11">>

\* The places statistics are taken of.
StatsKeywords ==
    {[name |-> Some("a"), address |-> Some("addr"), rating |-> Some(0),
      tags |-> Some(<<"food", "casual">>)],
     [name |-> Some("b"), address |-> Some("addr"), tags |-> Some(<<"food">>)],
     [name |-> Some("c"), address |-> Some("addr"), rating |-> Some(4),
      tags |-> Some(<<"art">>)],
     [name |-> Some("d"), address |-> Some("addr"), rating |-> Some(5),
      tags |-> Some(ManyTags)]}

StatsUpdates == {[tags |-> None], [rating |-> Some(-4)]}

Limits == {None, Some(0), Some(1), Some(2)}
Offsets == {0, 1}
Longitudes == {0, 1}
Radii == {0, 120}

Next ==
    \/ \E kw \in Keywords : save_place(kw)
    \/ \E id \in Ids, upd \in Updates : update_place(id, upd)
    \/ \E id \in Ids : update_place(id, NoUpdates)
    \/ \E id \in Ids : delete_place(id)
    \/ \E payload \in Payloads : import_places_from_json(payload)

Spec == Init /\ [][Next]_vars

\* The store under saves and deletes, and the reading calls on it.
NextQuery ==
    \/ \E kw \in Keywords : save_place(kw)
    \/ \E id \in Ids : delete_place(id)
    \/ \E id \in Ids : GetPlace(id)
    \/ \E pid \in {Some("g1"), Some("g2")} : GetPlaceByGoogleId(pid)
    \/ \E limit \in Limits, offset \in Offsets : get_all_places(limit, offset)
    \/ \E lon \in Longitudes, radius \in Radii : get_places_by_location(0, lon, radius)

SpecQuery == Init /\ [][NextQuery]_vars

\* The store under saves, updates and deletes, and the statistics of it.
NextStats ==
    \/ \E kw \in StatsKeywords : save_place(kw)
    \/ \E id \in Ids, upd \in StatsUpdates : update_place(id, upd)
    \/ \E id \in Ids : delete_place(id)
    \/ get_statistics

SpecStats == Init /\ [][NextStats]_vars

\* ----------------------------------------------------- overlapping updates
\* Calls of update_place made by two clients of the same database file.  A
\* call reaches the file twice, each time on a connection of its own: the
\* SELECT of get_place and the UPDATE; both are atomic, and what the call
\* does in between is local to it.  Here op, arg, ret and exc hold, per
\* client, where its call stands, the call's place_id, updates and loaded
\* place, its result and its error.
Procs == {"p1", "p2"}

ConcUpdates ==
    {[notes |-> Some("n")], [notes |-> Some("m")], [rating |-> Some(5)],
     [name |-> None]}

NoCall == [place_id |-> 0, updates |-> <<>>, place |-> None]

\* A store with one saved place, and no call under way.
InitConc ==
    /\ \E kw \in Keywords :
          table = SaveEffect({}, 0, SavedPlace(kw, 0), 0).table
    /\ seq = 1
    /\ now = 1
    /\ op = [p \in Procs |-> "idle"]
    /\ arg = [p \in Procs |-> NoCall]
    /\ ret = [p \in Procs |-> None]
    /\ exc = [p \in Procs |-> ""]

\* update_place up to the UPDATE: the early returns, and the place loaded.
Load(p, id, upd) ==
    /\ op[p] = "idle"
    /\ arg' = [arg EXCEPT ![p] = [place_id |-> id, updates |-> upd,
                                  place |-> IF DOMAIN upd = {} THEN None
                                            ELSE get_place(table, id)]]
    /\ IF UpdateRefused(table, id, upd)
       THEN /\ op' = [op EXCEPT ![p] = "done"]
            /\ ret' = [ret EXCEPT ![p] = Some(FALSE)]
       ELSE /\ op' = [op EXCEPT ![p] = "loaded"]
            /\ UNCHANGED ret
    /\ UNCHANGED <<table, seq, now, exc>>

WriteBaseCurrent(place, current) == current

\* The object the updates are set on and every column is written from: the
\* place the call loaded, whatever the row holds by now.
WriteBase(place, current) == place

\* The rest of update_place: the updates set on the place, the stamp, and the
\* UPDATE of the row with the id.
Write(p) ==
    /\ op[p] = "loaded"
    /\ now < MaxTime
    /\ now' = now + 1
    /\ op' = [op EXCEPT ![p] = "done"]
    /\ LET id == arg[p].place_id
           current == IF get_place(table, id) = None THEN Val(arg[p].place)
                      ELSE Val(get_place(table, id))
           cols == Columns(Patched(WriteBase(Val(arg[p].place), current),
                                   arg[p].updates, now))
       IN  IF UpdateRejected(table, id, cols)
           THEN /\ ret' = [ret EXCEPT ![p] = None]
                /\ exc' = [exc EXCEPT ![p] = "IntegrityError"]
                /\ UNCHANGED table
           ELSE /\ ret' = [ret EXCEPT ![p] = Some(TRUE)]
                /\ exc' = [exc EXCEPT ![p] = ""]
                /\ table' = {IF r.id = id THEN Rewritten(r, cols) ELSE r : r \in table}
    /\ UNCHANGED <<seq, arg>>

\* The call is over and the client free for its next one.
Return(p) ==
    /\ op[p] = "done"
    /\ op' = [op EXCEPT ![p] = "idle"]
    /\ arg' = [arg EXCEPT ![p] = NoCall]
    /\ ret' = [ret EXCEPT ![p] = None]
    /\ exc' = [exc EXCEPT ![p] = ""]
    /\ UNCHANGED <<table, seq, now>>

NextConc ==
    \/ \E p \in Procs, id \in Ids, upd \in ConcUpdates : Load(p, id, upd)
    \/ \E p \in Procs, id \in Ids : Load(p, id, NoUpdates)
    \/ \E p \in Procs : Write(p)
    \/ \E p \in Procs : Return(p)

SpecConc == InitConc /\ [][NextConc]_vars

\* ------------------------------------------------------------- properties
Persisted == Fields \ {"id"}

SameValues(place, other, fields) == \A f \in fields : place[f] = other[f]

\* C1. Upsert: a save of a place whose non-null place_id a stored row already
\* holds leaves exactly one row with that place_id, and
\* get_place_by_google_id returns the saved place's values on every persisted
\* attribute, its refreshed updated_at included.
C1_UpsertKeepsLatest ==
    [][(/\ op' = "save_place"
        /\ exc' = ""
        /\ get_place_by_google_id(table, arg'.place_id) # None)
       => /\ Cardinality({r \in table' : r.place_id = arg'.place_id}) = 1
          /\ arg'.updated_at = Some(now)
          /\ \A p \in get_place_by_google_id(table', arg'.place_id) :
                SameValues(p, arg', Persisted)]_vars

\* C2. Id stability: a save over an existing row with the same non-null
\* place_id returns that row's id and get_place still finds the record under
\* it; a save with no such row allocates an id no stored row has.
C2_IdReusedOnUpsert ==
    [][(op' = "save_place" /\ exc' = "")
       => /\ \A old \in get_place_by_google_id(table, arg'.place_id) :
                ret' = old.id /\ get_place(table', Val(old.id)) # None
          /\ (get_place_by_google_id(table, arg'.place_id) = None
                => get_place(table, Val(ret')) = None)]_vars

\* C3. No two stored rows have the same non-null place_id.
C3_PlaceIdUnique ==
    \A r1, r2 \in table :
        (r1.place_id # None /\ r1.place_id = r2.place_id) => r1 = r2

\* A save under a place_id that a row already held has replaced that row,
\* next to a row with another place_id.
C3_Witness ==
    /\ op = "save_place"
    /\ arg.place_id = Some("g1")
    /\ ret = Some(3)
    /\ Cardinality(table) = 2
    /\ \E r \in table : r.place_id = Some("g2")

\* C4. Round trip: get_place of the id a save returned yields the saved place
\* on every persisted attribute, for empty and for populated compound fields.
C4_RoundTrip ==
    (op = "save_place" /\ exc = "")
    => /\ get_place(table, Val(ret)) # None
       /\ \A p \in get_place(table, Val(ret)) : SameValues(p, arg, Persisted)

\* C5. Update frame: when update_place returns true, the attributes of the
\* place read under that id that differ from before are among the keys of the
\* updates and updated_at, the other rows are the same and so is the number
\* of rows.
C5_UpdateFrame ==
    [][(op' = "update_place" /\ ret' = TRUE)
       => LET id == arg'.place_id
              named == DOMAIN arg'.updates \cup {"updated_at"}
          IN  /\ get_place(table, id) # None
              /\ get_place(table', id) # None
              /\ SameValues(Val(get_place(table, id)), Val(get_place(table', id)),
                            Fields \ named)
              /\ table \ Deleted(table, id) = table' \ Deleted(table', id)
              /\ Cardinality(table') = Cardinality(table)]_vars

\* An update of notes alone succeeded on one of several rows.
C5_Witness ==
    /\ op = "update_place"
    /\ ret = TRUE
    /\ DOMAIN arg.updates = {"notes"}
    /\ Cardinality(table) >= 2
    /\ \E p \in get_place(table, arg.place_id) : p.notes = Some("n") /\ p.name # Some("")

\* C6. Update effect: after update_place returned true, get_place of that id
\* returns, for every key of the updates that names an attribute, the value
\* given, and an updated_at of the time of the update.
C6_UpdateEffect ==
    (op = "update_place" /\ ret = TRUE)
    => \A p \in get_place(table, arg.place_id) :
          /\ \A k \in (DOMAIN arg.updates \cap Fields) \ {"updated_at"} :
                p[k] = arg.updates[k]
          /\ p.updated_at = Some(now - 1)

\* C7. update_place returns false without an error and leaves the store as it
\* was when no row has the id or no updates are given, whatever attributes
\* the updates name; it returns true only
\* when a row with the id exists and was rewritten (stamped with the time of
\* the call).
C7_UpdateRefusal ==
    [][op' = "update_place"
       => LET id == arg'.place_id
          IN  /\ (get_place(table, id) = None \/ DOMAIN arg'.updates = {})
                    => (ret' = FALSE /\ exc' = "" /\ table' = table /\ seq' = seq)
              /\ ret' = TRUE
                    => /\ get_place(table, id) # None
                       /\ \E p \in get_place(table', id) : p.updated_at = Some(now)]_vars

\* C8. delete_place returns true exactly when a row with the id existed;
\* afterwards get_place of the id finds nothing, and the other rows are as
\* they were.
C8_Delete ==
    [][op' = "delete_place"
       => LET id == Val(arg')
          IN  /\ ret' = (get_place(table, id) # None)
              /\ get_place(table', id) = None
              /\ table' = {r \in table : r.id # id}]_vars

\* A row was deleted and another one is still there.
C8_Witness ==
    /\ op = "delete_place"
    /\ ret = TRUE
    /\ table # {}
    /\ get_place(table, Val(arg)) = None

\* C9. get_all_places(limit, offset) with a limit given returns the places
\* ranked offset+1 .. offset+limit of a listing by descending created_at, so
\* no more than limit of them; without a limit it returns such a listing of
\* every row.
C9_Pagination ==
    op = "get_all_places"
    => \E sorted \in NewestFirst(table) :
          IF arg.limit = None
          THEN ret = Places(sorted)
          ELSE /\ ret = Places(LimitOffset(sorted, Val(arg.limit), arg.offset))
               /\ Len(ret) <= Val(arg.limit)

\* C10. get_places_by_location returns the places of exactly the rows within
\* radius_km of the query point, nearest first, each carrying its distance.
C10_LocationWithDistance ==
    op = "get_places_by_location"
    => LET dist(p) == Distance(arg.latitude, arg.longitude,
                               Val(p.latitude), Val(p.longitude))
       IN  /\ {ret[i].id : i \in DOMAIN ret}
                = {Some(r.id) : r \in {x \in table : dist(x) <= arg.radius_km}}
           /\ Len(ret) = Cardinality({ret[i].id : i \in DOMAIN ret})
           /\ \A i, j \in DOMAIN ret : i < j => dist(ret[i]) <= dist(ret[j])
           /\ \A i \in DOMAIN ret :
                 /\ "distance" \in DOMAIN ret[i]
                 /\ ret[i].distance = Some(dist(ret[i]))

\* Every row holds a list of tags (none holds the text of a JSON null).
TagLists == \A r \in table : r.tags # None /\ json_loads(Val(r.tags)) # None

\* C11. get_statistics reports total_places as the number of rows, and an
\* average_rating that is absent exactly when no row has a rating and is the
\* rounded mean of the ratings otherwise.
C11_Statistics ==
    (op = "get_statistics" /\ TagLists)
    => /\ exc = ""
       /\ ret # None
       /\ Val(ret).total_places = Cardinality(table)
       /\ (Val(ret).average_rating = None) <=> (Rated(table) = {})
       /\ Rated(table) # {}
             => Val(ret).average_rating = Some(Round2(Val(AvgRating(table))))

\* The occurrences of a tag in the tag lists of the rows of t.
Occurrences(t, tag) ==
    Cardinality({x \in {r.id : r \in t} \X (1..Len(ManyTags)) :
                    \E r \in t : /\ r.id = x[1]
                                 /\ x[2] \in DOMAIN Val(LoadList(r.tags))
                                 /\ Val(LoadList(r.tags))[x[2]] = tag})

\* The place of the first occurrence of a tag in the aggregation.
FirstSeen(all_tags, tag) ==
    CHOOSE i \in DOMAIN all_tags :
        all_tags[i] = tag /\ \A j \in 1..(i - 1) : all_tags[j] # tag

Importable(item) ==
    /\ item.kind = "object"
    /\ DOMAIN item.kw \subseteq Fields
    /\ \A f \in {"name", "address", "latitude", "longitude"} :
          f \in DOMAIN item.kw /\ item.kw[f] # None

\* C13. An import of a JSON array of N elements raises nothing and returns
\* success with imported_count and the number of error messages adding up to
\* N, and every element that can be constructed and saved has its row,
\* wherever the failing elements sit.
C13_ImportNonFatal ==
    (op = "import_places_from_json" /\ arg.kind = "array")
    => /\ exc = ""
       /\ ret.success
       /\ ret.imported_count + Len(ret.errors) = Len(arg.items)
       /\ \A i \in DOMAIN arg.items :
             Importable(arg.items[i])
             => \E r \in table : r.name = arg.items[i].kw.name

\* Two calls of update_place on the same id are over, both returned true,
\* both had loaded the same version of the row (every write stamps the row
\* anew, so neither had written when the other read), and their updates name
\* different attributes.
Overlapped(o, w) ==
    /\ o # w
    /\ op[o] = "done" /\ op[w] = "done"
    /\ ret[o] = Some(TRUE) /\ ret[w] = Some(TRUE)
    /\ arg[o].place_id = arg[w].place_id
    /\ arg[o].place = arg[w].place
    /\ DOMAIN arg[o].updates \cap DOMAIN arg[w].updates = {}

\* C14. Lost update: of two overlapping calls of update_place on one id that
\* change different attributes and both return true, the row keeps the change
\* of one call only; the attributes the other call named hold what they held
\* before the two calls.
C14_LostUpdate ==
    \A p1, p2 \in Procs :
        Overlapped(p1, p2)
        => \E w \in {p1, p2} :
              LET o == CHOOSE x \in {p1, p2} : x # w
                  final == Val(get_place(table, arg[w].place_id))
                  before == Val(arg[o].place)
              IN  /\ \A f \in DOMAIN arg[w].updates : final[f] = arg[w].updates[f]
                  /\ \A f \in DOMAIN arg[o].updates : final[f] = before[f]

\* Two overlapping calls both returned true; the row holds the new value of
\* one call, and the attribute of the other call holds its old value, which
\* is not the value that call gave.
C14_Witness ==
    \E o, w \in Procs :
        /\ Overlapped(o, w)
        /\ LET final == Val(get_place(table, arg[w].place_id))
               before == Val(arg[o].place)
           IN  /\ \E f \in DOMAIN arg[w].updates :
                     final[f] = arg[w].updates[f] /\ final[f] # before[f]
               /\ \E f \in DOMAIN arg[o].updates :
                     final[f] = before[f] /\ final[f] # arg[o].updates[f]
====
